---- MODULE Spec2Model ----
(***************************************************************************)
(* Relay broker (scripts/arduino_daemon.py) and relay client / gate        *)
(* (scripts/arduino_relay_control.py).                                     *)
(*                                                                         *)
(* Text is modelled as a sequence of one-character strings, so that the    *)
(* substring tests of the code ("ERR" in response) are computed, not       *)
(* assumed.                                                                *)
(***************************************************************************)
EXTENDS Naturals, Sequences, FiniteSets, TLC

(***************************************************************************)
(* Bounds of the model.                                                    *)
(***************************************************************************)
\* IPC connections made to the broker
NumConns == 2
\* serial I/O exceptions injected in one behaviour
MaxFaults == 1

Conns == 1..NumConns
Brokers == {"B1", "B2"}
GateProcs == {"G1", "G2"}

(***************************************************************************)
(* Text helpers.                                                           *)
(***************************************************************************)
NL == "\n"
Whitespace == {" ", "\r", "\n", "\t"}

S_STATUS == <<"S", "T", "A", "T", "U", "S">>
S_ERR == <<"E", "R", "R">>
S_OK == <<"O", "K">>
S_DEVICE_ID == <<"R", "E", "L", "A", "Y", "-", "C", "T", "R", "L">>
S_ID == <<"I", "D">>

\* t in s, for texts
Contains(s, t) ==
  \E i \in 1..Len(s) : i + Len(t) - 1 <= Len(s) /\ SubSeq(s, i, i + Len(t) - 1) = t

RECURSIVE LStrip(_)
LStrip(s) == IF s # <<>> /\ Head(s) \in Whitespace THEN LStrip(Tail(s)) ELSE s

RECURSIVE RStrip(_)
RStrip(s) ==
  IF s # <<>> /\ s[Len(s)] \in Whitespace THEN RStrip(SubSeq(s, 1, Len(s) - 1)) ELSE s

\* str.strip()
Strip(s) == RStrip(LStrip(s))

\* '\n'.join(ls)
RECURSIVE Join(_)
Join(ls) ==
  IF ls = <<>> THEN <<>>
  ELSE IF Len(ls) = 1 THEN ls[1]
  ELSE ls[1] \o <<NL>> \o Join(Tail(ls))

\* The terminator test of the read loops: any(term in line for term in [...])
Markers == {S_STATUS, S_ERR, S_OK, S_DEVICE_ID}
IsTerminal(line) == \E m \in Markers : Contains(line, m)

\* range(10) of the read loops
ReadCap == 10

\* One iteration of the read loop `for _ in range(10)`: the line read is stripped;
\* an empty one ends the loop, another is appended and ends the loop when it is
\* a terminator or the tenth.  `how` says why readline returned nothing.
ReadIter(ls, raw, how) ==
  LET line == Strip(raw)
  IN IF line = <<>> THEN [lines |-> ls, done |-> TRUE, how |-> how]
     ELSE IF IsTerminal(line)
       THEN [lines |-> Append(ls, line), done |-> TRUE, how |-> "terminal"]
     ELSE IF Len(ls) + 1 >= ReadCap
       THEN [lines |-> Append(ls, line), done |-> TRUE, how |-> "cap"]
     ELSE [lines |-> Append(ls, line), done |-> FALSE, how |-> "none"]

\* Python values of the reply's "success" field: a bool, or a str
PyBool(b) == [t |-> "bool", b |-> b, s |-> <<>>]
PyStr(s) == [t |-> "str", b |-> FALSE, s |-> s]
Truthy(v) == IF v.t = "bool" THEN v.b ELSE v.s # <<>>

\* success = response and "ERR" not in response
\* (Python's `and` yields the empty str itself when response is empty)
DaemonSuccess(response) ==
  IF response = <<>> THEN PyStr(response) ELSE PyBool(~Contains(response, S_ERR))

\* The permissive predicate: a non-empty response with no ERR marker
PermissiveSuccess(response) == response # <<>> /\ ~Contains(response, S_ERR)

(***************************************************************************)
(* The device on the serial line (environment).  The bytes it has received *)
(* since it was last reset are recorded on `wire`; opening the serial port *)
(* resets the device (the auto-reset the programs wait for after opening). *)
(* The lines the device sends back wait in `rxq`.  A read either takes the *)
(* head of rxq or times out (the line is still on its way and stays        *)
(* queued).                                                                *)
(***************************************************************************)
LnOK == <<"O", "K", "\r", "\n">>
LnERR == <<"E", "R", "R", "\r", "\n">>
LnEcho == <<"o", "n", "\r", "\n">>
LnID == S_DEVICE_ID \o <<"\r", "\n">>

\* What the device sends back for a command line.  A device that stays silent is
\* the case of every read timing out, so no empty script is listed.
Scripts == {<<LnOK>>, <<LnERR>>, <<LnEcho, LnOK>>}
IdScripts == {<<LnID>>, <<LnEcho>>}

DeviceReplies(line) == IF line = S_ID THEN IdScripts ELSE Scripts

\* Commands a client sends
CmdON == <<"O", "N", " ", "0">>
CmdOFF == <<"O", "F", "F">>
Commands == {CmdON, CmdOFF}

\* The unterminated bytes at the end of the wire
RECURSIVE WireTail(_)
WireTail(w) ==
  IF w = <<>> \/ w[Len(w)] = NL THEN <<>>
  ELSE WireTail(SubSeq(w, 1, Len(w) - 1)) \o <<w[Len(w)]>>

\* The complete (terminated) lines on the wire, in order, without terminator
RECURSIVE WireLinesAcc(_, _, _)
WireLinesAcc(w, cur, acc) ==
  IF w = <<>> THEN acc
  ELSE IF Head(w) = NL THEN WireLinesAcc(Tail(w), <<>>, Append(acc, cur))
  ELSE WireLinesAcc(Tail(w), Append(cur, Head(w)), acc)
WireLines(w) == WireLinesAcc(w, <<>>, <<>>)

VARIABLES
  \* operating system
  pidfile,        \* "absent", "stale" (names a dead process) or the broker that wrote it
  sockNode,       \* "absent" or the broker whose socket is bound to the socket path
  serialOpen,     \* processes that hold the serial device open
  lockHolders,    \* processes that hold the exclusive flock on the lock file
  \* device
  wire, rxq,
  \* brokers
  bpc, running, server_socket, arduino_lock, backlog,
  \* IPC connections: client side, worker side
  cpc, payload,
  cbroker, wpc, wbuf, lines, reply, sent, ended,
  \* direct callers (the gate): one record per client process
  gate,
  \* injected I/O exceptions so far
  faults

osVars == <<pidfile, sockNode, serialOpen, lockHolders>>
devVars == <<wire, rxq>>
brokerVars == <<bpc, running, server_socket, arduino_lock, backlog>>
clientVars == <<cpc, payload>>
workerVars == <<cbroker, wpc, wbuf, lines, reply, sent, ended>>
ipcVars == <<brokerVars, clientVars, workerVars>>
vars == <<osVars, devVars, brokerVars, clientVars, workerVars, gate, faults>>

\* A client process that takes the direct route: where it is in main /
\* _execute_direct (pc), where inside get_connection or send_command (sub), its
\* operation, send_command's attempt and response_lines, _read_response's
\* response_lines, the response its outcome was computed from, its exit code,
\* and whether flock ever refused it; `writes` counts the times the running
\* send_command call has handed its command line to the port.
NotLaunched ==
  [pc |-> "init", sub |-> "none", op |-> "none", cmd |-> <<>>, attempt |-> 0,
   lines |-> <<>>, rlines |-> <<>>, resp |-> <<>>, exit |-> "none",
   refused |-> FALSE, ch |-> 0, ms |-> 0, conn |-> 0, writes |-> 0]

NoReply == [kind |-> "none", success |-> PyBool(FALSE), text |-> <<>>]
ResponseReply(success, response) ==
  [kind |-> "response", success |-> success, text |-> response]
ErrorReply(msg) == [kind |-> "error", success |-> PyBool(FALSE), text |-> msg]

\* Request payloads: {"command": cmd}, an object without "command", bytes that
\* are no JSON
GoodPayload(cmd) == [kind |-> "object", command |-> cmd]
Payloads ==
  {GoodPayload(cmd) : cmd \in Commands \cup {<<>>}} \cup
  {[kind |-> "garbage", command |-> <<>>]}
NoPayload == [kind |-> "nodata", command |-> <<>>]

\* The device takes the bytes `chunk`; a completed line makes it queue a reply
DeviceTakes(chunk, script) ==
  /\ wire' = wire \o chunk
  /\ IF chunk # <<>> /\ chunk[Len(chunk)] = NL
       THEN /\ script \in DeviceReplies(WireTail(wire \o SubSeq(chunk, 1, Len(chunk) - 1)))
            /\ rxq' = rxq \o script
       ELSE /\ script = <<>>
            /\ rxq' = rxq

\* The replies to choose from when bytes are written (none for an unfinished line)
AllScripts == Scripts \cup IdScripts \cup {<<>>}

(***************************************************************************)
(* Client side of one IPC connection: DaemonClient.                        *)
(***************************************************************************)
\* The socket path names a socket some broker still listens on
Listening(b) == sockNode = b /\ server_socket[b] = "listening"

\* Connections are used in the order of their numbers (they are interchangeable)
NextConn(c) == cpc[c] = "init" /\ (IF c = 1 THEN TRUE ELSE cpc[c - 1] # "init")

\* DaemonClient.send_command up to sock.send: connect, send one request
ClientRequest(c, p) ==
  /\ NextConn(c)
  /\ \E b \in Brokers :
       /\ Listening(b)
       /\ cbroker' = [cbroker EXCEPT ![c] = b]
       /\ backlog' = [backlog EXCEPT ![b] = Append(@, c)]
  /\ cpc' = [cpc EXCEPT ![c] = "waiting"]
  /\ payload' = [payload EXCEPT ![c] = p]
  /\ wpc' = [wpc EXCEPT ![c] = "queued"]
  /\ UNCHANGED <<osVars, devVars, bpc, running, server_socket, arduino_lock,
                 wbuf, lines, reply, sent, ended, gate, faults>>

\* DaemonClient.is_daemon_running: connect, then close without sending
ClientProbe(c) ==
  /\ NextConn(c)
  /\ \E b \in Brokers :
       /\ Listening(b)
       /\ cbroker' = [cbroker EXCEPT ![c] = b]
       /\ backlog' = [backlog EXCEPT ![b] = Append(@, c)]
  /\ cpc' = [cpc EXCEPT ![c] = "probed"]
  /\ payload' = [payload EXCEPT ![c] = NoPayload]
  /\ wpc' = [wpc EXCEPT ![c] = "queued"]
  /\ UNCHANGED <<osVars, devVars, bpc, running, server_socket, arduino_lock,
                 wbuf, lines, reply, sent, ended, gate, faults>>

\* What the client reports, given whether it got the reply object r:
\* json.loads of the reply, result.get("success", False) true for exit code 0,
\* anything else and every exception a failure (exit code 2).  sock.recv returns
\* end of stream when the worker closed without a reply.
ClientOutcome(got, r) ==
  IF got /\ r.kind # "none" /\ Truthy(r.success) THEN "success" ELSE "failure"

\* The worker's connection is closed: the client's recv returns
ClientDone(c) == cpc' = [cpc EXCEPT ![c] = IF @ = "waiting" THEN "done" ELSE @]

\* _execute_via_daemon after daemon_client.send_command: the client processes
\* whose request went over one of the connections cs have their result (the
\* reply r if got, else the failure send_command makes of an exception)
ViaResult(cs, got, r) ==
  [p \in GateProcs |->
     IF gate[p].pc = "via_wait" /\ gate[p].conn \in cs
       THEN [gate[p] EXCEPT !.pc = "done",
               !.exit = IF ClientOutcome(got, r) = "success" THEN "0" ELSE "2"]
       ELSE gate[p]]

(***************************************************************************)
(* Broker: serving loop and workers.                                       *)
(***************************************************************************)
\* _main_loop: accept one connection and start its worker thread
Accept(b) ==
  /\ bpc[b] = "serving"
  /\ running[b]
  /\ server_socket[b] = "listening"
  /\ backlog[b] # <<>>
  /\ wpc' = [wpc EXCEPT ![Head(backlog[b])] = "recv"]
  /\ backlog' = [backlog EXCEPT ![b] = Tail(@)]
  /\ UNCHANGED <<osVars, devVars, bpc, running, server_socket, arduino_lock,
                 clientVars, cbroker, wbuf, lines, reply, sent, ended, gate, faults>>

\* _main_loop with the loop left on an exception of an accept iteration
AcceptFaultStops(b) ==
  /\ bpc[b] = "serving"
  /\ running[b]
  /\ faults < MaxFaults
  /\ faults' = faults + 1
  /\ bpc' = [bpc EXCEPT ![b] = "exited"]
  /\ UNCHANGED <<osVars, devVars, running, server_socket, arduino_lock, backlog,
                 clientVars, workerVars, gate>>

\* _main_loop: settimeout, accept or Thread.start raises something other than
\* socket.timeout while running is set; `except Exception` logs it and the
\* loop goes on to its next iteration
AcceptFault(b) ==
  /\ bpc[b] = "serving"
  /\ running[b]
  /\ faults < MaxFaults
  /\ faults' = faults + 1
  /\ UNCHANGED <<osVars, devVars, brokerVars, clientVars, workerVars, gate>>

\* _handle_client up to the call of _execute_command, and _execute_command's
\* first test.  No data: nothing to do.  Undecodable data: json.loads raises, the
\* exception is logged, nothing is sent.  Both leave the `with client` block.
WorkerRecv(c) ==
  /\ wpc[c] = "recv"
  /\ IF payload[c].kind # "object"
       THEN /\ wpc' = [wpc EXCEPT ![c] = "closed"]
            /\ ClientDone(c)
            /\ gate' = ViaResult({c}, FALSE, NoReply)
            /\ UNCHANGED reply
       ELSE IF payload[c].command = <<>>
         THEN /\ reply' = [reply EXCEPT ![c] = ErrorReply(<<"N", "o">>)]
              /\ wpc' = [wpc EXCEPT ![c] = "send"]
              /\ UNCHANGED <<cpc, gate>>
         ELSE /\ wpc' = [wpc EXCEPT ![c] = "lock"]
              /\ UNCHANGED <<reply, cpc, gate>>
  /\ UNCHANGED <<osVars, devVars, brokerVars, payload, cbroker, wbuf, lines,
                 sent, ended, faults>>

\* with self.arduino_lock: (blocks until the mutex is free)
WorkerLockNoWait(c) ==
  /\ wpc[c] = "lock"
  /\ arduino_lock' = [arduino_lock EXCEPT ![cbroker[c]] = c]
  /\ wbuf' = [wbuf EXCEPT ![c] = payload[c].command \o <<NL>>]
  /\ lines' = [lines EXCEPT ![c] = <<>>]
  /\ wpc' = [wpc EXCEPT ![c] = "write"]
  /\ UNCHANGED <<osVars, devVars, bpc, running, server_socket, backlog, clientVars,
                 cbroker, reply, sent, ended, gate, faults>>
WorkerLock(c) ==
  /\ wpc[c] = "lock"
  /\ arduino_lock[cbroker[c]] = 0
  /\ arduino_lock' = [arduino_lock EXCEPT ![cbroker[c]] = c]
  /\ wbuf' = [wbuf EXCEPT ![c] = payload[c].command \o <<NL>>]
  /\ lines' = [lines EXCEPT ![c] = <<>>]
  /\ wpc' = [wpc EXCEPT ![c] = "write"]
  /\ UNCHANGED <<osVars, devVars, bpc, running, server_socket, backlog, clientVars,
                 cbroker, reply, sent, ended, gate, faults>>

\* Leaving the `with self.arduino_lock` block releases the mutex
Release(c) ==
  arduino_lock' = [arduino_lock EXCEPT ![cbroker[c]] = IF @ = c THEN 0 ELSE @]

\* except Exception as e: return {"success": False, "error": str(e)}
RaiseKeepsLock(c, how) ==
  /\ reply' = [reply EXCEPT ![c] = ErrorReply(<<"e">>)]
  /\ ended' = [ended EXCEPT ![c] = how]
  /\ wpc' = [wpc EXCEPT ![c] = "send"]
  /\ UNCHANGED arduino_lock
Raise(c, how) ==
  /\ reply' = [reply EXCEPT ![c] = ErrorReply(<<"e">>)]
  /\ ended' = [ended EXCEPT ![c] = how]
  /\ wpc' = [wpc EXCEPT ![c] = "send"]
  /\ Release(c)

\* The serial port takes the buffer of one write call whole, or the line first
\* and its terminator after it
WritePieces(buf) == {k \in {Len(buf) - 1, Len(buf)} : k >= 1}

\* self.arduino.write(...); self.arduino.flush(): the bytes go out in one or two
\* pieces; on a closed port the write raises
WorkerWrite(c) ==
  /\ wpc[c] = "write"
  /\ IF cbroker[c] \notin serialOpen
       THEN /\ Raise(c, "closed")
            /\ UNCHANGED <<devVars, wbuf>>
       ELSE \E k \in WritePieces(wbuf[c]), script \in AllScripts :
            /\ DeviceTakes(SubSeq(wbuf[c], 1, k), script)
            /\ wbuf' = [wbuf EXCEPT ![c] = SubSeq(@, k + 1, Len(@))]
            /\ wpc' = [wpc EXCEPT ![c] = IF k = Len(wbuf[c]) THEN "read" ELSE "write"]
            /\ UNCHANGED <<arduino_lock, reply, ended>>
  /\ UNCHANGED <<osVars, bpc, running, server_socket, backlog, clientVars, cbroker,
                 lines, sent, gate, faults>>

\* The read loop is left: response, success, return (the mutex is released)
Finish(c, ls, how) ==
  /\ reply' = [reply EXCEPT ![c] = ResponseReply(DaemonSuccess(Join(ls)), Join(ls))]
  /\ ended' = [ended EXCEPT ![c] = how]
  /\ wpc' = [wpc EXCEPT ![c] = "send"]
  /\ Release(c)

\* One iteration of `for _ in range(10)` in the worker, given what readline
\* returned
ReadStep(c, raw, how) ==
  LET it == ReadIter(lines[c], raw, how)
  IN /\ lines' = [lines EXCEPT ![c] = it.lines]
     /\ IF it.done THEN Finish(c, it.lines, it.how)
        ELSE UNCHANGED <<reply, ended, wpc, arduino_lock>>

\* self.arduino.readline(): the next line of the device, or nothing within the
\* timeout; on a closed port the read raises
WorkerRead(c) ==
  /\ wpc[c] = "read"
  /\ IF cbroker[c] \notin serialOpen
       THEN Raise(c, "closed") /\ UNCHANGED <<rxq, lines>>
       ELSE \/ /\ rxq # <<>>
               /\ rxq' = Tail(rxq)
               /\ ReadStep(c, Head(rxq), "blank")
            \/ /\ UNCHANGED rxq
               /\ ReadStep(c, <<>>, "timeout")
  /\ UNCHANGED <<osVars, wire, bpc, running, server_socket, backlog, clientVars,
                 cbroker, wbuf, sent, gate, faults>>

\* A serial write or read raises an I/O exception
WorkerFault(c) ==
  /\ wpc[c] \in {"write", "read"}
  /\ cbroker[c] \in serialOpen
  /\ faults < MaxFaults
  /\ faults' = faults + 1
  /\ Raise(c, "fault")
  /\ UNCHANGED <<osVars, devVars, bpc, running, server_socket, backlog, clientVars,
                 cbroker, wbuf, lines, sent, gate>>

\* client.send(json.dumps(response)); then the `with client` block closes the
\* connection.  A client waits for its reply; to a client that sent nothing and
\* left, the send raises and is logged.  The worker's locals are dropped.
WorkerSend(c) ==
  /\ wpc[c] = "send"
  /\ sent' = [sent EXCEPT ![c] = IF cpc[c] = "waiting" THEN @ + 1 ELSE @]
  /\ ClientDone(c)
  /\ gate' = ViaResult({c}, TRUE, reply[c])
  /\ wpc' = [wpc EXCEPT ![c] = "closed"]
  /\ reply' = [reply EXCEPT ![c] = NoReply]
  /\ ended' = [ended EXCEPT ![c] = "none"]
  /\ lines' = [lines EXCEPT ![c] = <<>>]
  /\ UNCHANGED <<osVars, devVars, brokerVars, payload, cbroker, wbuf, faults>>

\* _shutdown with the PID file left in place
ShutdownKeepsPid(b) ==
  /\ bpc[b] = "serving"
  /\ running' = [running EXCEPT ![b] = FALSE]
  /\ serialOpen' = serialOpen \ {b}
  /\ server_socket' = [server_socket EXCEPT ![b] = IF @ = "none" THEN @ ELSE "closed"]
  /\ sockNode' = "absent"
  /\ UNCHANGED <<pidfile, lockHolders, devVars, bpc, arduino_lock, backlog,
                 clientVars, workerVars, gate, faults>>

\* _shutdown, the SIGTERM / SIGINT handler
Shutdown(b) ==
  /\ bpc[b] = "serving"
  /\ running' = [running EXCEPT ![b] = FALSE]
  /\ serialOpen' = serialOpen \ {b}
  /\ server_socket' = [server_socket EXCEPT ![b] = IF @ = "none" THEN @ ELSE "closed"]
  /\ sockNode' = "absent"
  /\ pidfile' = "absent"
  /\ UNCHANGED <<lockHolders, devVars, bpc, arduino_lock, backlog, clientVars,
                 workerVars, gate, faults>>

\* _main_loop ends once running is false; start() returns and the process exits,
\* which ends its daemon threads and closes its connections
MainLoopExit(b) ==
  /\ bpc[b] = "serving"
  /\ ~running[b]
  /\ bpc' = [bpc EXCEPT ![b] = "exited"]
  /\ LET dies == {c \in Conns : cbroker[c] = b /\ wpc[c] \notin {"none", "closed"}}
     IN /\ wpc' = [c \in Conns |-> IF c \in dies THEN "killed" ELSE wpc[c]]
        /\ cpc' = [c \in Conns |->
                     IF c \in dies /\ cpc[c] = "waiting" THEN "done" ELSE cpc[c]]
        /\ reply' = [c \in Conns |-> IF c \in dies THEN NoReply ELSE reply[c]]
        /\ ended' = [c \in Conns |-> IF c \in dies THEN "none" ELSE ended[c]]
        /\ lines' = [c \in Conns |-> IF c \in dies THEN <<>> ELSE lines[c]]
        /\ wbuf' = [c \in Conns |-> IF c \in dies THEN <<>> ELSE wbuf[c]]
        /\ gate' = ViaResult(dies, FALSE, NoReply)
  /\ backlog' = [backlog EXCEPT ![b] = <<>>]
  /\ arduino_lock' = [arduino_lock EXCEPT ![b] = 0]
  /\ UNCHANGED <<osVars, devVars, running, server_socket, payload, cbroker, sent,
                 faults>>

(***************************************************************************)
(* A broker that serves: the state start() reaches at its call of          *)
(* _main_loop, the handshake line written and its answer read.             *)
(***************************************************************************)
InitConns ==
  /\ cpc = [c \in Conns |-> "init"]
  /\ payload = [c \in Conns |-> NoPayload]
  /\ cbroker = [c \in Conns |-> "B1"]
  /\ wpc = [c \in Conns |-> "none"]
  /\ wbuf = [c \in Conns |-> <<>>]
  /\ lines = [c \in Conns |-> <<>>]
  /\ reply = [c \in Conns |-> NoReply]
  /\ sent = [c \in Conns |-> 0]
  /\ ended = [c \in Conns |-> "none"]

InitServe ==
  /\ pidfile = "B1"
  /\ sockNode = "B1"
  /\ serialOpen = {"B1"}
  /\ wire = S_ID \o <<NL>>
  /\ rxq = <<>>
  /\ bpc = [b \in Brokers |-> IF b = "B1" THEN "serving" ELSE "idle"]
  /\ running = [b \in Brokers |-> b = "B1"]
  /\ server_socket = [b \in Brokers |-> IF b = "B1" THEN "listening" ELSE "none"]
  /\ arduino_lock = [b \in Brokers |-> 0]
  /\ backlog = [b \in Brokers |-> <<>>]
  /\ lockHolders = {}
  /\ InitConns
  /\ gate = [p \in GateProcs |-> NotLaunched]
  /\ faults = 0

NextServe ==
  \/ \E c \in Conns, p \in Payloads : ClientRequest(c, p)
  \/ \E c \in Conns : ClientProbe(c)
  \/ \E b \in Brokers : Accept(b)
  \/ \E c \in Conns : WorkerRecv(c)
  \/ \E c \in Conns : WorkerLock(c)
  \/ \E c \in Conns : WorkerWrite(c)
  \/ \E c \in Conns : WorkerRead(c)
  \/ \E c \in Conns : WorkerFault(c)
  \/ \E c \in Conns : WorkerSend(c)

SpecServe == InitServe /\ [][NextServe]_vars

\* The serving broker with termination requests
NextStop ==
  \/ NextServe
  \/ \E b \in Brokers : Shutdown(b)
  \/ \E b \in Brokers : MainLoopExit(b)

SpecStop == InitServe /\ [][NextStop]_vars

(***************************************************************************)
(* Claims about the serving broker (SpecServe).                            *)
(***************************************************************************)
\* A worker is inside a device transaction from its first write to the end of
\* its response collection
InTxn(c) == wpc[c] \in {"write", "read"}

\* The command lines of clients on the wire: all but the handshake line
ClientLines == Tail(WireLines(wire))

Count(ls, x) == Cardinality({i \in DOMAIN ls : ls[i] = x})

\* C1: at most one worker of a broker is inside a device transaction, and that
\* worker holds the broker's mutex, whatever the number of connections.
C1_OneTransaction ==
  /\ \A b \in Brokers : Cardinality({c \in Conns : cbroker[c] = b /\ InTxn(c)}) <= 1
  /\ \A c \in Conns : InTxn(c) => arduino_lock[cbroker[c]] = c

\* One worker is inside its transaction while another waits for the mutex
C1_Witness ==
  \E c1, c2 \in Conns : c1 # c2 /\ wpc[c1] = "read" /\ wpc[c2] = "lock"

\* The connections whose command line has been handed to the serial port in full
HasWritten(c) ==
  /\ payload[c].kind = "object"
  /\ payload[c].command # <<>>
  /\ wpc[c] \in {"read", "send", "closed"}

\* C2: while no serial I/O exception has occurred, the device has received
\* exactly one complete newline-terminated line per command sent through the
\* broker, each line one of the commands as sent, and the only unterminated
\* bytes are the head of the line of the one worker that is writing.
C2_WholeLines ==
  faults = 0 =>
    /\ Len(ClientLines) = Cardinality({c \in Conns : HasWritten(c)})
    /\ \A cmd \in Commands :
         Count(ClientLines, cmd) =
           Cardinality({c \in Conns : HasWritten(c) /\ payload[c].command = cmd})
    /\ \/ WireTail(wire) = <<>>
       \/ \E c \in Conns :
            /\ wpc[c] = "write"
            /\ WireTail(wire) \o wbuf[c] = payload[c].command \o <<NL>>

\* Every connection carried a command, all are served, and the device has as
\* many lines, two of them different
C2_Witness ==
  /\ faults = 0
  /\ \A c \in Conns : wpc[c] = "closed" /\ HasWritten(c)
  /\ Len(ClientLines) = NumConns
  /\ \E i, j \in DOMAIN ClientLines : ClientLines[i] # ClientLines[j]

\* C6: a connection on which a request arrived, whose client waited for the
\* answer, is closed only after exactly one response object was written.
C6_OneResponsePerRequest ==
  \A c \in Conns :
    (wpc[c] = "closed" /\ payload[c].kind # "nodata" /\ cpc[c] = "done")
      => sent[c] = 1

\* C7: a malformed request is answered with one structured failure reply before
\* the connection is closed, and its worker never enters a device transaction.
C7_MalformedAnswered ==
  \A c \in Conns :
    payload[c].kind = "garbage" =>
      /\ wpc[c] \notin {"lock", "write", "read"}
      /\ (wpc[c] = "closed" /\ cpc[c] = "done")
           => sent[c] = 1

\* C8: the step in which a serial write or read raises leaves the worker with a
\* failure reply carrying an error text, the mutex free, the serial link open
\* and the broker running.
C8_FaultContained ==
  [][\A c \in Conns :
       (InTxn(c) /\ faults' # faults /\ wpc'[c] # wpc[c]) =>
         /\ wpc'[c] = "send"
         /\ reply'[c].kind = "error"
         /\ ~Truthy(reply'[c].success)
         /\ reply'[c].text # <<>>
         /\ arduino_lock'[cbroker[c]] = 0
         /\ cbroker[c] \in serialOpen'
         /\ running'[cbroker[c]]
         /\ bpc'[cbroker[c]] = "serving"]_vars

\* After one client's command failed on an I/O exception, another client's
\* command, written to the device after it, succeeded
C8_Witness ==
  \E c1, c2 \in Conns :
    /\ c1 # c2
    /\ ended[c2] = "terminal" /\ wpc[c2] = "send" /\ Truthy(reply[c2].success)
    /\ faults = 1
    /\ wpc[c1] = "closed" /\ payload[c1].kind = "object"
    /\ payload[c1].command # <<>>
    /\ payload[c1].command # payload[c2].command
    /\ ClientLines = <<payload[c1].command, payload[c2].command>>

\* C9: a command whose response collection ended on a read timeout is reported
\* as a failure, whether lines were collected before the timeout or not.
C9_TimeoutIsFailure ==
  \A c \in Conns :
    (wpc[c] = "send" /\ ended[c] = "timeout") => ~Truthy(reply[c].success)

(***************************************************************************)
(* The gate: a client process on the direct route.                         *)
(* PersistentArduinoController and ArduinoRelayController.                 *)
(***************************************************************************)
\* max_retries of PersistentArduinoController.send_command
MaxRetries == 3

\* The operations of a client process: the command line of each
GateOps ==
  {[op |-> "on", cmd |-> CmdON, ch |-> 0, ms |-> 0],
   [op |-> "status", cmd |-> S_STATUS, ch |-> 0, ms |-> 0]}

\* str(n) of a natural number: its decimal digits
DigitChars == <<"0", "1", "2", "3", "4", "5", "6", "7", "8", "9">>
RECURSIVE IntText(_)
IntText(n) ==
  IF n < 10 THEN <<DigitChars[n + 1]>>
  ELSE Append(IntText(n \div 10), DigitChars[(n % 10) + 1])

\* f"PULSE {channel} {milliseconds}", the line both routes build
S_PULSE == <<"P", "U", "L", "S", "E">>
PulseCmd(ch, ms) == S_PULSE \o <<" ">> \o IntText(ch) \o <<" ">> \o IntText(ms)

\* The pulse invocations: argparse admits the channels of range(6) and any
\* integer width; the widths are those at the edges of 1..60000
Channels == 0..5
PulseWidths == {0, 1, 60000, 60001}
PulseOps ==
  {[op |-> "pulse", cmd |-> PulseCmd(ch, ms), ch |-> ch, ms |-> ms] :
     ch \in Channels, ms \in PulseWidths}

\* ArduinoRelayController.pulse: _validate_channel and the test of the width,
\* either raising ValueError; the other operations here take no such operand
ArgsValid(s) ==
  s.op = "pulse" => (0 <= s.ch /\ s.ch <= 5 /\ 1 <= s.ms /\ s.ms <= 60000)

\* _is_success_response: one of the markers STATUS, OK, RELAY-CTRL and no ERR
IsSuccessResponse(response) ==
  /\ response # <<>>
  /\ \/ Contains(response, S_STATUS)
     \/ Contains(response, S_OK)
     \/ Contains(response, S_DEVICE_ID)
  /\ ~Contains(response, S_ERR)

\* The end of _exec_and_ok or get_status, and the exit code _execute_direct
\* makes of it.  `response` is what _read_response returned (empty for None).
\* get_status returns a snapshot, and the invocation succeeds, for any
\* non-empty response.
Outcome(s, response) ==
  LET success == IF s.op = "status" THEN response # <<>>
                 ELSE IsSuccessResponse(response)
  IN [s EXCEPT !.pc = "done", !.sub = "none", !.lines = <<>>, !.rlines = <<>>,
               !.attempt = 0, !.writes = 0, !.resp = response,
               !.exit = IF success THEN "0" ELSE "2"]

\* PersistentArduinoController.send_command returned `resp` (empty for None).
\* In _send_command the result is dropped and _read_response follows; in
\* _read_response it is one "line" of the loop `for _ in range(max_lines)`.
AfterSend(s, resp) ==
  IF s.pc = "send"
    THEN [s EXCEPT !.pc = "isconn2", !.sub = "call", !.lines = <<>>, !.attempt = 0,
                   !.writes = 0]
  ELSE IF resp = <<>> THEN Outcome(s, Join(s.rlines))
  ELSE IF IsTerminal(resp) \/ Len(s.rlines) + 1 >= ReadCap
    THEN Outcome(s, Join(Append(s.rlines, resp)))
  ELSE [s EXCEPT !.rlines = Append(@, resp), !.lines = <<>>, !.attempt = 0,
                 !.writes = 0, !.sub = "call"]

\* The next round of `for attempt in range(max_retries)`, or `return None`
NextAttempt(s) ==
  IF s.attempt + 1 >= MaxRetries THEN AfterSend(s, <<>>)
  ELSE [s EXCEPT !.attempt = @ + 1, !.sub = "call", !.lines = <<>>]

\* get_connection returned: a connection (ok) or None, to its caller
AfterGc(s, ok) ==
  CASE s.pc = "connect" ->
         IF ~ok THEN [s EXCEPT !.pc = "done", !.sub = "none", !.exit = "1"]
         ELSE IF ~ArgsValid(s)
           THEN [s EXCEPT !.pc = "done", !.sub = "none", !.exit = "3"]
         ELSE [s EXCEPT !.pc = "isconn1", !.sub = "call"]
    [] s.pc = "isconn1" ->
         IF ok THEN [s EXCEPT !.pc = "send", !.sub = "call", !.attempt = 0]
         ELSE [s EXCEPT !.pc = "done", !.sub = "none", !.exit = "2"]
    [] s.pc = "isconn2" ->
         IF ok THEN [s EXCEPT !.pc = "rsend", !.sub = "call", !.attempt = 0,
                              !.rlines = <<>>]
         ELSE Outcome(s, <<>>)
    [] OTHER ->
         IF ok THEN [s EXCEPT !.sub = "write"] ELSE NextAttempt(s)

InGetConnection(p) ==
  gate[p].pc \in {"connect", "isconn1", "send", "isconn2", "rsend"}

\* main: the probe of the IPC endpoint selects the route
GateProbe(p, o) ==
  /\ gate[p].pc = "init"
  /\ gate' = [gate EXCEPT ![p] =
       IF \E b \in Brokers : Listening(b)
         THEN [@ EXCEPT !.pc = "via_daemon", !.op = o.op, !.cmd = o.cmd,
                        !.ch = o.ch, !.ms = o.ms]
         ELSE [@ EXCEPT !.pc = "connect", !.sub = "call", !.op = o.op,
                        !.cmd = o.cmd, !.ch = o.ch, !.ms = o.ms]]
  /\ UNCHANGED <<osVars, devVars, ipcVars, faults>>

\* get_connection: the cached open connection is returned; otherwise the lock
\* file is opened anew, which drops (closes) the file object held before and
\* with it a lock this process still holds
GcEnter(p) ==
  /\ InGetConnection(p)
  /\ gate[p].sub = "call"
  /\ IF p \in serialOpen
       THEN /\ gate' = [gate EXCEPT ![p] = AfterGc(@, TRUE)]
            /\ UNCHANGED lockHolders
       ELSE /\ gate' = [gate EXCEPT ![p].sub = "flock"]
            /\ lockHolders' = lockHolders \ {p}
  /\ UNCHANGED <<pidfile, sockNode, serialOpen, devVars, ipcVars, faults>>

\* flock(LOCK_EX | LOCK_NB) succeeds when no other open file holds the lock
CanLockAlways(p) == TRUE
CanLock(p) == lockHolders = {}

\* fcntl.flock: the lock, or BlockingIOError and `return None`
GcFlock(p) ==
  /\ gate[p].sub = "flock"
  /\ IF CanLock(p)
       THEN /\ lockHolders' = lockHolders \cup {p}
            /\ gate' = [gate EXCEPT ![p].sub = "open"]
       ELSE /\ gate' = [gate EXCEPT ![p] = [AfterGc(@, FALSE) EXCEPT !.refused = TRUE]]
            /\ UNCHANGED lockHolders
  /\ UNCHANGED <<pidfile, sockNode, serialOpen, devVars, ipcVars, faults>>

\* serial.Serial(...), the wait for the reset, reset_input_buffer
GcOpen(p) ==
  /\ gate[p].sub = "open"
  /\ serialOpen' = serialOpen \cup {p}
  /\ wire' = <<>>
  /\ rxq' = <<>>
  /\ gate' = [gate EXCEPT ![p].sub = "id"]
  /\ UNCHANGED <<pidfile, sockNode, lockHolders, ipcVars, faults>>

\* self._connection.write(b"ID\n"); flush
GcId(p) ==
  /\ gate[p].sub = "id"
  /\ \E script \in AllScripts : DeviceTakes(S_ID \o <<NL>>, script)
  /\ gate' = [gate EXCEPT ![p].sub = "idread"]
  /\ UNCHANGED <<osVars, ipcVars, faults>>

\* _cleanup: the connection is closed and forgotten, the lock released
CleanupKeepsPort(p) ==
  /\ lockHolders' = lockHolders \ {p}
  /\ UNCHANGED serialOpen
CleanupKeepsLock(p) ==
  /\ serialOpen' = serialOpen \ {p}
  /\ UNCHANGED lockHolders
Cleanup(p) ==
  /\ serialOpen' = serialOpen \ {p}
  /\ lockHolders' = lockHolders \ {p}

\* readline of the handshake: the device-ID marker, or `raise Exception`, which
\* is answered with _cleanup and `return None`
GcIdReadGot(p, raw) ==
  IF Contains(Strip(raw), S_DEVICE_ID)
    THEN /\ gate' = [gate EXCEPT ![p] = AfterGc(@, TRUE)]
         /\ UNCHANGED <<serialOpen, lockHolders>>
    ELSE /\ gate' = [gate EXCEPT ![p] = AfterGc(@, FALSE)]
         /\ Cleanup(p)

GcIdRead(p) ==
  /\ gate[p].sub = "idread"
  /\ \/ /\ rxq # <<>>
        /\ rxq' = Tail(rxq)
        /\ GcIdReadGot(p, Head(rxq))
     \/ /\ UNCHANGED rxq
        /\ GcIdReadGot(p, <<>>)
  /\ UNCHANGED <<pidfile, sockNode, wire, ipcVars, faults>>

\* serial.Serial, write or readline raises SerialException inside
\* get_connection: an IOError, so the branch `except (IOError, OSError)` takes
\* it for a held lock and returns None without _cleanup
GcFault(p) ==
  /\ gate[p].sub \in {"open", "id", "idread"}
  /\ faults < MaxFaults
  /\ faults' = faults + 1
  /\ gate' = [gate EXCEPT ![p] = AfterGc(@, FALSE)]
  /\ UNCHANGED <<osVars, devVars, ipcVars>>

\* The command line send_command writes: the operation's own in _send_command,
\* STATUS in _read_response
SendLine(s) == IF s.pc = "send" THEN s.cmd ELSE S_STATUS

\* conn.write(cmd_bytes); conn.flush()
SendWrite(p) ==
  /\ gate[p].sub = "write"
  /\ \E script \in AllScripts : DeviceTakes(SendLine(gate[p]) \o <<NL>>, script)
  /\ gate' = [gate EXCEPT ![p].sub = "read", ![p].lines = <<>>,
                          ![p].writes = @ + 1]
  /\ UNCHANGED <<osVars, ipcVars, faults>>

\* One iteration of send_command's read loop; at its end `return response`
SendReadGot(p, raw) ==
  LET it == ReadIter(gate[p].lines, raw, "timeout")
  IN gate' = [gate EXCEPT ![p] =
       IF it.done THEN AfterSend(@, Join(it.lines)) ELSE [@ EXCEPT !.lines = it.lines]]

SendRead(p) ==
  /\ gate[p].sub = "read"
  /\ \/ /\ rxq # <<>>
        /\ rxq' = Tail(rxq)
        /\ SendReadGot(p, Head(rxq))
     \/ /\ UNCHANGED rxq
        /\ SendReadGot(p, <<>>)
  /\ UNCHANGED <<osVars, wire, ipcVars, faults>>

\* write or readline raises in send_command: _cleanup, then the next attempt
SendFault(p) ==
  /\ gate[p].sub \in {"write", "read"}
  /\ faults < MaxFaults
  /\ faults' = faults + 1
  /\ Cleanup(p)
  /\ gate' = [gate EXCEPT ![p] = NextAttempt(@)]
  /\ UNCHANGED <<pidfile, sockNode, devVars, ipcVars>>

\* sys.exit: the process ends, its files are closed
GateExit(p) ==
  /\ gate[p].pc = "done"
  /\ gate' = [gate EXCEPT ![p] = [NotLaunched EXCEPT !.pc = "exited", !.exit = gate[p].exit]]
  /\ serialOpen' = serialOpen \ {p}
  /\ lockHolders' = lockHolders \ {p}
  /\ UNCHANGED <<pidfile, sockNode, devVars, ipcVars, faults>>

\* _execute_via_daemon falling back to the direct route when the broker's
\* endpoint refuses the connection
ViaDaemonSendFallback(p) ==
  /\ gate[p].pc = "via_daemon"
  /\ IF \E b \in Brokers : Listening(b)
       THEN \E c \in Conns, b \in Brokers :
              /\ NextConn(c)
              /\ Listening(b)
              /\ cbroker' = [cbroker EXCEPT ![c] = b]
              /\ backlog' = [backlog EXCEPT ![b] = Append(@, c)]
              /\ cpc' = [cpc EXCEPT ![c] = "waiting"]
              /\ payload' = [payload EXCEPT ![c] = GoodPayload(gate[p].cmd)]
              /\ wpc' = [wpc EXCEPT ![c] = "queued"]
              /\ gate' = [gate EXCEPT ![p].pc = "via_wait", ![p].conn = c]
       ELSE /\ gate' = [gate EXCEPT ![p].pc = "connect", ![p].sub = "call"]
            /\ UNCHANGED <<cbroker, backlog, cpc, payload, wpc>>
  /\ UNCHANGED <<osVars, devVars, bpc, running, server_socket, arduino_lock,
                 wbuf, lines, reply, sent, ended, faults>>

\* _execute_via_daemon with DaemonClient.send_command up to sock.send: the
\* command line is built from the arguments as they are and sent as one
\* request on a new connection; a refused connect is a failure (exit code 2)
ViaDaemonSend(p) ==
  /\ gate[p].pc = "via_daemon"
  /\ IF \E b \in Brokers : Listening(b)
       THEN \E c \in Conns, b \in Brokers :
              /\ NextConn(c)
              /\ Listening(b)
              /\ cbroker' = [cbroker EXCEPT ![c] = b]
              /\ backlog' = [backlog EXCEPT ![b] = Append(@, c)]
              /\ cpc' = [cpc EXCEPT ![c] = "waiting"]
              /\ payload' = [payload EXCEPT ![c] = GoodPayload(gate[p].cmd)]
              /\ wpc' = [wpc EXCEPT ![c] = "queued"]
              /\ gate' = [gate EXCEPT ![p].pc = "via_wait", ![p].conn = c]
       ELSE /\ gate' = [gate EXCEPT ![p].pc = "done", ![p].exit = "2"]
            /\ UNCHANGED <<cbroker, backlog, cpc, payload, wpc>>
  /\ UNCHANGED <<osVars, devVars, bpc, running, server_socket, arduino_lock,
                 wbuf, lines, reply, sent, ended, faults>>

\* The steps of a client process after its route is chosen
GateRun(p) ==
  \/ GcEnter(p)
  \/ GcFlock(p)
  \/ GcOpen(p)
  \/ GcId(p)
  \/ GcIdRead(p)
  \/ GcFault(p)
  \/ SendWrite(p)
  \/ SendRead(p)
  \/ SendFault(p)
  \/ GateExit(p)

GateStep(p) ==
  \/ \E o \in GateOps : GateProbe(p, o)
  \/ GateRun(p)

(***************************************************************************)
(* Client processes with no broker running.                                *)
(***************************************************************************)
InitNoBroker ==
  /\ pidfile = "absent"
  /\ sockNode = "absent"
  /\ serialOpen = {}
  /\ lockHolders = {}
  /\ wire = <<>>
  /\ rxq = <<>>
  /\ bpc = [b \in Brokers |-> "idle"]
  /\ running = [b \in Brokers |-> FALSE]
  /\ server_socket = [b \in Brokers |-> "none"]
  /\ arduino_lock = [b \in Brokers |-> 0]
  /\ backlog = [b \in Brokers |-> <<>>]
  /\ InitConns
  /\ gate = [p \in GateProcs |-> NotLaunched]
  /\ faults = 0

NextGate == \E p \in GateProcs : GateStep(p)

SpecGate == InitNoBroker /\ [][NextGate]_vars

(***************************************************************************)
(* The broker's startup: ArduinoRelayDaemon.start, step by step, with a    *)
(* second broker process and a client process on the direct route beside   *)
(* it.                                                                     *)
(***************************************************************************)
\* The process of broker b exists: os.kill(pid, 0) on its PID succeeds
Alive(b) == bpc[b] \notin {"idle", "refused", "exited"}

\* _is_already_running, and start's answer to it.  No PID file: not running.
\* A PID file naming a live process: "Daemon already running", start returns.
\* Otherwise the file is removed and start goes on.
IsAlreadyRunning ==
  /\ pidfile \in Brokers
  /\ Alive(pidfile)

StartCheck(b) ==
  /\ bpc[b] = "idle"
  /\ IF IsAlreadyRunning
       THEN /\ bpc' = [bpc EXCEPT ![b] = "refused"]
            /\ UNCHANGED pidfile
       ELSE /\ bpc' = [bpc EXCEPT ![b] = "connect"]
            /\ pidfile' = "absent"
  /\ UNCHANGED <<sockNode, serialOpen, lockHolders, devVars, running,
                 server_socket, arduino_lock, backlog, clientVars, workerVars,
                 gate, faults>>

\* _connect_arduino as one step: serial.Serial(...) opens the port, without a
\* lock and without exclusive access; after the wait for the reset the buffers
\* are cleared, "ID\n" is written and one line is read (the answer, or nothing
\* within the timeout).  "RELAY-CTRL" in the line: connected.  Otherwise start
\* returns False and the process ends, its serial port closed with it.
ConnectArduino(b) ==
  /\ bpc[b] = "connect"
  /\ \E script \in DeviceReplies(S_ID), got \in BOOLEAN :
       LET response == IF got THEN Head(script) ELSE <<>>
       IN /\ wire' = S_ID \o <<NL>>
          /\ rxq' = IF got THEN Tail(script) ELSE script
          /\ IF Contains(response, S_DEVICE_ID)
               THEN /\ bpc' = [bpc EXCEPT ![b] = "socket"]
                    /\ serialOpen' = serialOpen \cup {b}
               ELSE /\ bpc' = [bpc EXCEPT ![b] = "exited"]
                    /\ UNCHANGED serialOpen
  /\ UNCHANGED <<pidfile, sockNode, lockHolders, running, server_socket,
                 arduino_lock, backlog, clientVars, workerVars, gate, faults>>

\* An exception in _connect_arduino: logged, start returns False
StartFault(b) ==
  /\ bpc[b] = "connect"
  /\ faults < MaxFaults
  /\ faults' = faults + 1
  /\ bpc' = [bpc EXCEPT ![b] = "exited"]
  /\ UNCHANGED <<osVars, devVars, running, server_socket, arduino_lock, backlog,
                 clientVars, workerVars, gate>>

\* _setup_socket: the path is unlinked if it exists, then bind and listen
StartSocket(b) ==
  /\ bpc[b] = "socket"
  /\ sockNode' = b
  /\ server_socket' = [server_socket EXCEPT ![b] = "listening"]
  /\ bpc' = [bpc EXCEPT ![b] = "pid"]
  /\ UNCHANGED <<pidfile, serialOpen, lockHolders, devVars, running,
                 arduino_lock, backlog, clientVars, workerVars, gate, faults>>

\* The PID file is written, the handlers installed, running set, _main_loop
\* entered
StartPid(b) ==
  /\ bpc[b] = "pid"
  /\ pidfile' = b
  /\ running' = [running EXCEPT ![b] = TRUE]
  /\ bpc' = [bpc EXCEPT ![b] = "serving"]
  /\ UNCHANGED <<sockNode, serialOpen, lockHolders, devVars, server_socket,
                 arduino_lock, backlog, clientVars, workerVars, gate, faults>>

BrokerStep(b) ==
  \/ StartCheck(b)
  \/ ConnectArduino(b)
  \/ StartFault(b)
  \/ StartSocket(b)
  \/ StartPid(b)
  \/ Shutdown(b)
  \/ MainLoopExit(b)

\* Nothing runs yet; a PID file may be left from a broker that was killed
InitStart ==
  /\ pidfile \in {"absent", "stale"}
  /\ sockNode = "absent"
  /\ serialOpen = {}
  /\ lockHolders = {}
  /\ wire = <<>>
  /\ rxq = <<>>
  /\ bpc = [b \in Brokers |-> "idle"]
  /\ running = [b \in Brokers |-> FALSE]
  /\ server_socket = [b \in Brokers |-> "none"]
  /\ arduino_lock = [b \in Brokers |-> 0]
  /\ backlog = [b \in Brokers |-> <<>>]
  /\ InitConns
  /\ gate = [p \in GateProcs |-> NotLaunched]
  /\ faults = 0

NextStart ==
  \/ \E b \in Brokers : BrokerStep(b)
  \/ GateStep("G1")

SpecStart == InitStart /\ [][NextStart]_vars

(***************************************************************************)
(* One client invocation from main on: the probe, the route it selects,    *)
(* and the broker (if one serves) that may be told to stop at any time.    *)
(***************************************************************************)
InitRoute == InitServe \/ InitNoBroker

NextRoute ==
  \/ \E o \in GateOps \cup PulseOps : GateProbe("G1", o)
  \/ ViaDaemonSend("G1")
  \/ GateRun("G1")
  \/ \E b \in Brokers : Accept(b)
  \/ \E c \in Conns : WorkerRecv(c)
  \/ \E c \in Conns : WorkerLock(c)
  \/ \E c \in Conns : WorkerWrite(c)
  \/ \E c \in Conns : WorkerRead(c)
  \/ \E c \in Conns : WorkerSend(c)
  \/ \E b \in Brokers : Shutdown(b)
  \/ \E b \in Brokers : MainLoopExit(b)

SpecRoute == InitRoute /\ [][NextRoute]_vars

\* C3: at no reachable state do two processes hold the serial device open at
\* the same time, whatever the interleaving of broker starts and direct callers.
C3_SingleOwner == Cardinality(serialOpen) <= 1

\* C4: a broker start attempted while another broker process is serving or
\* inside its own startup is refused, and leaves the PID file, the IPC endpoint
\* and the serial link alone; a start that finds a PID file naming a process
\* that is not alive discards the file and proceeds.
C4_DuplicateRefused ==
  [][\A b \in Brokers :
       (bpc[b] = "idle" /\ bpc'[b] # "idle") =>
         IF \E b2 \in Brokers \ {b} :
              \/ bpc[b2] \in {"connect", "socket", "pid"}
              \/ bpc[b2] = "serving" /\ running[b2]
           THEN /\ bpc'[b] = "refused"
                /\ UNCHANGED <<pidfile, sockNode, serialOpen>>
           ELSE pidfile = "stale" => (bpc'[b] = "connect" /\ pidfile' = "absent")]_vars

\* C5: with no broker running and two processes contending through the gate, at
\* most one process holds the advisory lock at any instant, and a process has
\* the serial connection (and its command on the way) only while it is the one
\* holder of the lock: the loser gets there only after the winner released it.
C5_LockExclusive ==
  /\ Cardinality(lockHolders) <= 1
  /\ \A p \in GateProcs :
       (p \in serialOpen \/ gate[p].sub \in {"id", "idread", "write", "read"})
         => lockHolders = {p}

\* A process that was refused the lock while the other held it has the
\* connection and its command under way, after the other ran its command and
\* exited
C5_Witness ==
  \E p, q \in GateProcs :
    /\ p # q
    /\ gate[p].refused /\ p \in serialOpen /\ gate[p].sub = "read"
    /\ lockHolders = {p}
    /\ gate[q].pc = "exited" /\ gate[q].exit = "0"

\* C10: on both routes the outcome reported for a command equals the permissive
\* predicate applied to the collected response: success exactly when the
\* response is non-empty and has no ERR marker, no other marker being required.
C10_PermissiveOutcome ==
  /\ \A c \in Conns :
       (wpc[c] = "send" /\ reply[c].kind = "response")
         => (Truthy(reply[c].success) <=> PermissiveSuccess(reply[c].text))
  /\ \A p \in GateProcs :
       (gate[p].pc = "done" /\ gate[p].exit # "1")
         => (gate[p].exit = "0" <=> PermissiveSuccess(gate[p].resp))

\* C11: a PULSE invocation whose width is outside 1..60000 fails validation
\* with no bytes written to the device on either route: the process never has
\* the serial port, its command line never reaches the device or the broker,
\* and it ends with the exit code of an invalid argument.
C11_PulseValidated ==
  \A p \in GateProcs :
    (gate[p].op = "pulse" /\ ~(1 <= gate[p].ms /\ gate[p].ms <= 60000)) =>
      /\ p \notin serialOpen
      /\ gate[p].conn = 0
      /\ ~Contains(wire, gate[p].cmd)
      /\ gate[p].pc = "done" => gate[p].exit \in {"1", "2", "3"}

\* The broker's process is there and its shutdown handler has run
HasShutDown(b) == bpc[b] = "serving" /\ ~running[b]

\* C12: after broker shutdown the running flag is false, the serial link is
\* closed, the IPC endpoint is closed and its node removed, and the PID file is
\* removed; running shutdown again in that state is possible and changes
\* nothing.
C12_ShutdownIdempotent ==
  \A b \in Brokers :
    HasShutDown(b) =>
      /\ b \notin serialOpen
      /\ server_socket[b] = "closed"
      /\ sockNode = "absent"
      /\ pidfile = "absent"
      /\ ENABLED Shutdown(b)
      /\ ~ENABLED (Shutdown(b) /\ vars' # vars)

\* The handler has run while a worker was inside its device transaction
C12_Witness ==
  \E b \in Brokers, c \in Conns :
    /\ HasShutDown(b)
    /\ cbroker[c] = b /\ wpc[c] = "read"
    /\ pidfile = "absent" /\ sockNode = "absent"

\* C13: every reply object the broker writes has a boolean success field with
\* a response text, or success false with an error text, for every command,
\* the empty command and a command with an empty device response included.
C13_ReplyShape ==
  \A c \in Conns :
    wpc[c] = "send" =>
      \/ reply[c].kind = "response" /\ reply[c].success.t = "bool"
      \/ /\ reply[c].kind = "error"
         /\ reply[c].success = PyBool(FALSE)
         /\ reply[c].text # <<>>

(***************************************************************************)
(* Response collection on its own: a read loop of either route has just    *)
(* written its command line, and the device sends some lines.              *)
(***************************************************************************)
\* The longest run of lines without a marker the device sends
MaxChatter == 11

\* A line of nothing but its terminator
LnBlank == <<"\r", NL>>

RECURSIVE Repeat(_, _)
Repeat(x, k) == IF k = 0 THEN <<>> ELSE <<x>> \o Repeat(x, k - 1)

\* What the device sends: lines without a marker, then an end
DeviceOutputs ==
  {Repeat(LnEcho, k) \o tail :
     k \in 0..MaxChatter,
     tail \in {<<>>, <<LnOK>>, <<LnERR>>, <<LnBlank, LnOK>>}}

\* A worker of the broker inside its read loop, the mutex held
InitCollectBroker ==
  /\ pidfile = "B1"
  /\ sockNode = "B1"
  /\ serialOpen = {"B1"}
  /\ lockHolders = {}
  /\ wire = S_ID \o <<NL>> \o CmdON \o <<NL>>
  /\ rxq \in DeviceOutputs
  /\ bpc = [b \in Brokers |-> IF b = "B1" THEN "serving" ELSE "idle"]
  /\ running = [b \in Brokers |-> b = "B1"]
  /\ server_socket = [b \in Brokers |-> IF b = "B1" THEN "listening" ELSE "none"]
  /\ arduino_lock = [b \in Brokers |-> IF b = "B1" THEN 1 ELSE 0]
  /\ backlog = [b \in Brokers |-> <<>>]
  /\ cpc = [c \in Conns |-> IF c = 1 THEN "waiting" ELSE "init"]
  /\ payload = [c \in Conns |-> IF c = 1 THEN GoodPayload(CmdON) ELSE NoPayload]
  /\ cbroker = [c \in Conns |-> "B1"]
  /\ wpc = [c \in Conns |-> IF c = 1 THEN "read" ELSE "none"]
  /\ wbuf = [c \in Conns |-> <<>>]
  /\ lines = [c \in Conns |-> <<>>]
  /\ reply = [c \in Conns |-> NoReply]
  /\ sent = [c \in Conns |-> 0]
  /\ ended = [c \in Conns |-> "none"]
  /\ gate = [p \in GateProcs |-> NotLaunched]
  /\ faults = 0

\* A client process on the direct route inside send_command's read loop, for
\* the first STATUS of _read_response
InitCollectGate ==
  /\ pidfile = "absent"
  /\ sockNode = "absent"
  /\ serialOpen = {"G1"}
  /\ lockHolders = {"G1"}
  /\ wire = S_ID \o <<NL>> \o CmdON \o <<NL>> \o S_STATUS \o <<NL>>
  /\ rxq \in DeviceOutputs
  /\ bpc = [b \in Brokers |-> "idle"]
  /\ running = [b \in Brokers |-> FALSE]
  /\ server_socket = [b \in Brokers |-> "none"]
  /\ arduino_lock = [b \in Brokers |-> 0]
  /\ backlog = [b \in Brokers |-> <<>>]
  /\ InitConns
  /\ gate = [p \in GateProcs |->
               IF p = "G1"
                 THEN [NotLaunched EXCEPT !.pc = "rsend", !.sub = "read",
                                          !.op = "on", !.cmd = CmdON,
                                          !.writes = 1]
                 ELSE NotLaunched]
  /\ faults = 0

InitCollect == InitCollectBroker \/ InitCollectGate

NextCollect ==
  \/ \E c \in Conns : WorkerRead(c)
  \/ \E p \in GateProcs : SendRead(p)

SpecCollect == InitCollect /\ [][NextCollect]_vars

\* The lines a read loop holds after a read, given its lines before and the
\* device's queue before and after: a line taken off the queue is appended
\* unless it is blank
LinesAfterRead(ls, q, q2) ==
  IF Len(q2) < Len(q) /\ Strip(Head(q)) # <<>> THEN Append(ls, Strip(Head(q))) ELSE ls

\* A read loop may stop after a read: nothing was read, or the line read has a
\* marker, or it is the tenth line
MayStop(got, q, q2) ==
  \/ Len(q2) = Len(q)
  \/ Len(q2) < Len(q) /\ IsTerminal(Head(q))
  \/ Len(got) = ReadCap

\* C14: response collection on both routes reads at most 10 lines, stops at
\* the first line with one of the markers STATUS, ERR, OK, RELAY-CTRL (that
\* line included) or at the first empty read and not before, and the raw
\* response is the collected lines in read order joined by newlines.
C14_Collection ==
  [][/\ \A c \in Conns :
          (wpc[c] = "read" /\ (wpc'[c] # wpc[c] \/ rxq' # rxq)) =>
            LET got == LinesAfterRead(lines[c], rxq, rxq')
            IN /\ Len(got) <= ReadCap
               /\ IF wpc'[c] = "read"
                    THEN lines'[c] = got /\ ~MayStop(got, rxq, rxq')
                    ELSE reply'[c].text = Join(got) /\ MayStop(got, rxq, rxq')
     /\ \A p \in GateProcs :
          (gate[p].sub = "read" /\ gate'[p] # gate[p]) =>
            LET got == LinesAfterRead(gate[p].lines, rxq, rxq')
            IN /\ Len(got) <= ReadCap
               /\ IF gate'[p].sub = "read"
                    THEN gate'[p].lines = got /\ ~MayStop(got, rxq, rxq')
                    ELSE /\ \/ gate'[p].resp = Join(got)
                            \/ gate'[p].rlines = <<Join(got)>>
                         /\ MayStop(got, rxq, rxq')]_vars

(***************************************************************************)
(* Status parsing: ArduinoRelayController._parse_status_response.          *)
(***************************************************************************)
\* s.split(seps): the pieces of s between separators; `keep` keeps the empty
\* pieces (str.splitlines keeps an empty line, str.split() drops empty tokens)
RECURSIVE SplitAcc(_, _, _, _, _)
SplitAcc(s, seps, keep, cur, acc) ==
  IF s = <<>>
    THEN IF cur = <<>> THEN acc ELSE Append(acc, cur)
  ELSE IF Head(s) \in seps
    THEN SplitAcc(Tail(s), seps, keep, <<>>,
                  IF cur = <<>> /\ ~keep THEN acc ELSE Append(acc, cur))
  ELSE SplitAcc(Tail(s), seps, keep, Append(cur, Head(s)), acc)

\* response.splitlines()
SplitLines(s) == SplitAcc(s, {NL}, TRUE, <<>>, <<>>)

\* status_line.split()
SplitWs(s) == SplitAcc(s, Whitespace, FALSE, <<>>, <<>>)

\* line.startswith(prefix)
StartsWith(s, prefix) ==
  Len(s) >= Len(prefix) /\ SubSeq(s, 1, Len(prefix)) = prefix

\* The first line that starts with STATUS, or none (the empty text)
RECURSIVE FirstStatusLine(_)
FirstStatusLine(ls) ==
  IF ls = <<>> THEN <<>>
  ELSE IF StartsWith(Head(ls), S_STATUS) THEN Head(ls)
  ELSE FirstStatusLine(Tail(ls))

\* The index of the first ':' in tok, 0 if there is none
ColonAt(tok) ==
  IF \E i \in DOMAIN tok : tok[i] = ":"
    THEN CHOOSE i \in DOMAIN tok : tok[i] = ":" /\ \A j \in 1..(i - 1) : tok[j] # ":"
    ELSE 0

\* int(idx): the value of a run of decimal digits; for another text int raises
\* ValueError (the signs, underscores and blanks int also takes do not occur in
\* the tokens drawn below)
DigitOf(ch) == CHOOSE d \in 0..9 : DigitChars[d + 1] = ch
IsDigits(t) == t # <<>> /\ \A i \in DOMAIN t : \E d \in 0..9 : DigitChars[d + 1] = t[i]
RECURSIVE DigitsValue(_)
DigitsValue(t) ==
  IF t = <<>> THEN 0 ELSE DigitsValue(SubSeq(t, 1, Len(t) - 1)) * 10 + DigitOf(t[Len(t)])

\* val.upper()
LowerChars == <<"a", "b", "c", "d", "e", "f", "g", "h", "i", "j", "k", "l", "m",
                "n", "o", "p", "q", "r", "s", "t", "u", "v", "w", "x", "y", "z">>
UpperChars == <<"A", "B", "C", "D", "E", "F", "G", "H", "I", "J", "K", "L", "M",
                "N", "O", "P", "Q", "R", "S", "T", "U", "V", "W", "X", "Y", "Z">>
Upper(t) ==
  [i \in DOMAIN t |->
     IF \E k \in DOMAIN LowerChars : LowerChars[k] = t[i]
       THEN UpperChars[CHOOSE k \in DOMAIN LowerChars : LowerChars[k] = t[i]]
       ELSE t[i]]

S_ON == <<"O", "N">>

\* The loop over the tokens: a token with a ':' whose left part is an integer
\* sets channels[int(idx)] = (val.upper() == 'ON'); a later token for the same
\* index overwrites an earlier one
RECURSIVE ParseTokens(_, _)
ParseTokens(toks, channels) ==
  IF toks = <<>> THEN channels
  ELSE LET tok == Head(toks)
           k == ColonAt(tok)
           idx == SubSeq(tok, 1, k - 1)
           val == SubSeq(tok, k + 1, Len(tok))
       IN IF k > 0 /\ IsDigits(idx)
            THEN ParseTokens(Tail(toks),
                   [i \in DOMAIN channels \cup {DigitsValue(idx)} |->
                      IF i = DigitsValue(idx) THEN Upper(val) = S_ON ELSE channels[i]])
            ELSE ParseTokens(Tail(toks), channels)

\* _parse_status_response(response)['channels']
ParseStatus(response) ==
  LET status_line == FirstStatusLine(SplitLines(response))
  IN IF status_line = <<>> THEN <<>>
     ELSE ParseTokens(Tail(SplitWs(status_line)), <<>>)

\* Tokens a status line may carry: well-formed ones, a lower-case value, a
\* value that is neither ON nor OFF, an index that is no number, a token with
\* no ':', an index beyond the six channels
StatusTokens ==
  {<<"0", ":", "O", "N">>,
   <<"1", ":", "O", "F", "F">>,
   <<"2", ":", "o", "n">>,
   <<"3", ":", "F", "O", "O">>,
   <<"x", ":", "O", "N">>,
   <<"5">>,
   <<"7", ":", "O", "N">>}

S_OFF == <<"O", "F", "F">>

\* The status line of the device with all six channels
FullStatusLine == <<"S", "T", "A", "T", "U", "S", " ", "0", ":", "O", "N", " ", "1", ":", "O", "N", " ", "2", ":", "O", "F", "F", " ", "3", ":", "O", "N", " ", "4", ":", "O", "F", "F", " ", "5", ":", "O", "F", "F">>

\* The status lines drawn: STATUS followed by at most two tokens, and the full
\* line
StatusLines ==
  {S_STATUS, FullStatusLine} \cup
  {S_STATUS \o <<" ">> \o t : t \in StatusTokens} \cup
  {S_STATUS \o <<" ">> \o t1 \o <<" ">> \o t2 : t1, t2 \in StatusTokens}

\* A client process on the direct route in get_status, inside the read loop of
\* a STATUS of _read_response, with or without an earlier line without marker;
\* the device's status line is on its way
InitStatus ==
  /\ pidfile = "absent"
  /\ sockNode = "absent"
  /\ serialOpen = {"G1"}
  /\ lockHolders = {"G1"}
  /\ wire = S_ID \o <<NL>> \o S_STATUS \o <<NL>> \o S_STATUS \o <<NL>>
  /\ \E ln \in StatusLines : rxq = <<ln \o <<"\r", NL>>>>
  /\ bpc = [b \in Brokers |-> "idle"]
  /\ running = [b \in Brokers |-> FALSE]
  /\ server_socket = [b \in Brokers |-> "none"]
  /\ arduino_lock = [b \in Brokers |-> 0]
  /\ backlog = [b \in Brokers |-> <<>>]
  /\ InitConns
  /\ \E earlier \in {<<>>, <<Strip(LnEcho)>>} :
       gate = [p \in GateProcs |->
                 IF p = "G1"
                   THEN [NotLaunched EXCEPT !.pc = "rsend", !.sub = "read",
                                            !.op = "status", !.cmd = S_STATUS,
                                            !.rlines = earlier, !.writes = 1]
                   ELSE NotLaunched]
  /\ faults = 0

NextStatus ==
  \/ \E p \in GateProcs : SendRead(p)
  \/ \E p \in GateProcs : GateExit(p)

SpecStatus == InitStatus /\ [][NextStatus]_vars

\* A token of the form <index>:<ON|OFF>, its index and its state
TokIndex(tok) == DigitsValue(SubSeq(tok, 1, ColonAt(tok) - 1))
TokValue(tok) == SubSeq(tok, ColonAt(tok) + 1, Len(tok))
WellFormedToken(tok) ==
  /\ ColonAt(tok) > 0
  /\ IsDigits(SubSeq(tok, 1, ColonAt(tok) - 1))
  /\ TokValue(tok) \in {S_ON, S_OFF}

\* C15: status parsing uses the first response line that starts with STATUS;
\* the channel map has an entry exactly for the tokens of the form
\* <index>:<ON|OFF>, true for ON and false for OFF; every other token is
\* skipped and contributes no entry.
C15_StatusParsed ==
  \A p \in GateProcs :
    (gate[p].pc = "done" /\ gate[p].op = "status" /\ gate[p].resp # <<>>) =>
      LET line == FirstStatusLine(SplitLines(gate[p].resp))
          toks == IF line = <<>> THEN <<>> ELSE Tail(SplitWs(line))
          good == {i \in DOMAIN toks : WellFormedToken(toks[i])}
          channels == ParseStatus(gate[p].resp)
      IN /\ DOMAIN channels = {TokIndex(toks[i]) : i \in good}
         /\ \A ch \in DOMAIN channels :
              \E i \in good : /\ TokIndex(toks[i]) = ch
                              /\ channels[ch] = (TokValue(toks[i]) = S_ON)

\* The program positions of the direct route
DirectPcs == {"connect", "isconn1", "send", "isconn2", "rsend"}

\* C16: a gate caller holds the advisory lock only for the duration of one
\* command execution: between two commands of the same process (after the
\* operation's own command returned, before or between the STATUS commands
\* that follow) and after the last one, the process does not hold the lock.
C16_LockPerCommand ==
  \A p \in GateProcs :
    (\/ gate[p].pc \in {"isconn2", "rsend"} /\ gate[p].sub = "call" /\ gate[p].attempt = 0
     \/ gate[p].pc = "done" /\ gate[p].exit \in {"0", "2"})
      => p \notin lockHolders

\* C17: a gate command execution makes at most 3 attempts; an attempt that
\* finds the lock held by a peer returns at once and is retried; contention
\* becomes a failure of the invocation only when the third attempt is refused.
C17_BoundedRetry ==
  [][\A p \in GateProcs :
       /\ gate'[p].attempt < MaxRetries
       /\ (gate[p].sub = "flock" /\ ~CanLock(p) /\ gate'[p] # gate[p]) =>
            /\ gate'[p].sub # "flock"
            /\ gate'[p].pc = "done" =>
                 (gate[p].pc \in {"send", "rsend"} /\ gate[p].attempt + 1 >= MaxRetries)]_vars

\* The program positions of the broker route
ViaPcs == {"via_daemon", "via_wait"}

\* C18: each client invocation selects its route once, from the probe: if the
\* endpoint accepts the probe the command goes as one request on a new IPC
\* connection and the process never has the serial port or the lock; if not,
\* the command goes through the gate and never over IPC.
C18_RouteOnce ==
  [][\A p \in GateProcs :
       /\ (gate[p].pc = "init" /\ gate'[p].pc # "init") =>
            gate'[p].pc = (IF \E b \in Brokers : Listening(b)
                             THEN "via_daemon" ELSE "connect")
       /\ gate[p].pc \in ViaPcs =>
            /\ gate'[p].pc \in ViaPcs \cup {"done"}
            /\ p \notin serialOpen' \cup lockHolders'
            /\ gate[p].conn # 0 => gate'[p].conn = gate[p].conn
            /\ (gate[p].pc = "via_daemon" /\ gate'[p].pc = "via_wait") =>
                 /\ cpc[gate'[p].conn] = "init"
                 /\ payload'[gate'[p].conn] = GoodPayload(gate[p].cmd)
       /\ gate[p].pc \in DirectPcs =>
            /\ gate'[p].pc \in DirectPcs \cup {"done"}
            /\ gate'[p].conn = 0
            /\ cpc' = cpc
       /\ (gate[p].pc = "done" /\ gate'[p].pc = "done") =>
            /\ gate'[p].conn = gate[p].conn
            /\ (p \in serialOpen' \cup lockHolders') => gate[p].conn = 0]_vars

\* An invocation that took the broker route has its command executed and
\* reported a success, and has neither the port nor the lock
C18_Witness ==
  \E p \in GateProcs :
    /\ gate[p].pc = "done" /\ gate[p].exit = "0" /\ gate[p].conn # 0
    /\ payload[gate[p].conn] = GoodPayload(gate[p].cmd)
    /\ Contains(wire, gate[p].cmd)
    /\ p \notin serialOpen \cup lockHolders

\* C19: on the gate route one client operation causes exactly one command
\* line, the operation's own, to be written to the device: while the process
\* has the port, the device has received the handshake line and at most one
\* line after it, the operation's command.
C19_OneCommandLine ==
  \A p \in GateProcs :
    (p \in serialOpen /\ gate[p].pc \in DirectPcs \cup {"done"}) =>
      LET written == WireLines(wire)
      IN /\ \A i \in DOMAIN written : written[i] \in {S_ID, gate[p].cmd}
         /\ Count(written, gate[p].cmd) <= 1

\* C20: when a gate command attempt hits an I/O error while writing or
\* reading, the cached connection is closed and discarded and the lock
\* released before the next attempt; an attempt of a process without a
\* connection starts from lock acquisition.
C20_FaultCleansUp ==
  [][\A p \in GateProcs :
       /\ (gate[p].sub \in {"write", "read"} /\ faults' # faults /\ gate'[p] # gate[p]) =>
            /\ p \notin serialOpen'
            /\ p \notin lockHolders'
            /\ gate'[p].lines = <<>>
       /\ (gate[p].sub = "call" /\ p \notin serialOpen /\ gate'[p] # gate[p]) =>
            (gate'[p].sub = "flock" /\ p \notin lockHolders')
       /\ (gate[p].sub = "flock" /\ gate'[p].sub \notin {"flock", "open"}) =>
            p \notin serialOpen'
       /\ (gate[p].sub = "open" /\ p \in serialOpen') =>
            (gate'[p].sub = "id" /\ lockHolders' = {p})]_vars

\* After an I/O error in its first attempt a process is in its second attempt
\* with a connection opened anew, the handshake done, while its peer that took
\* the lock in between has exited
C20_Witness ==
  \E p, q \in GateProcs :
    /\ p # q
    /\ faults = 1
    /\ gate[p].attempt = 1 /\ gate[p].sub = "read" /\ gate[p].pc = "send"
    /\ p \in serialOpen /\ lockHolders = {p}
    /\ gate[q].pc = "exited"
    /\ WireLines(wire) = <<S_ID, gate[p].cmd>>


(***************************************************************************)
(* The serving loop on its own schedule: the main thread runs _main_loop   *)
(* without end, its accept wait bounded by the 1 s timeout, so an          *)
(* iteration that can accept a pending connection, and the loop test once  *)
(* running is false, are not put off forever.  Worker threads are          *)
(* scheduled likewise.                                                     *)
(***************************************************************************)
NextLoop ==
  \/ \E c \in Conns : ClientRequest(c, GoodPayload(CmdON))
  \/ \E b \in Brokers : Accept(b)
  \/ \E b \in Brokers : AcceptFault(b)
  \/ \E c \in Conns : WorkerRecv(c)
  \/ \E c \in Conns : WorkerLock(c)
  \/ \E c \in Conns : WorkerWrite(c)
  \/ \E c \in Conns : WorkerRead(c)
  \/ \E c \in Conns : WorkerSend(c)
  \/ \E b \in Brokers : Shutdown(b)
  \/ \E b \in Brokers : MainLoopExit(b)

SpecLoop ==
  /\ InitServe
  /\ [][NextLoop]_vars
  /\ \A b \in Brokers : WF_vars(Accept(b)) /\ WF_vars(MainLoopExit(b))

\* C21: an exception in an accept iteration while running is set leaves the
\* broker serving with its endpoint, its backlog and its workers as they were,
\* and a connection waiting in the backlog is still taken up; once running is
\* false no connection is accepted any more, and the loop eventually exits.
C21_LoopContinues ==
  /\ [][(faults' # faults /\ wpc' = wpc) =>
          /\ bpc' = bpc /\ running' = running
          /\ server_socket' = server_socket /\ sockNode' = sockNode
          /\ backlog' = backlog /\ serialOpen' = serialOpen]_vars
  /\ [][\A c \in Conns :
          (wpc[c] = "queued" /\ wpc'[c] = "recv") => running[cbroker[c]]]_vars
  /\ \A c \in Conns : (wpc[c] = "queued") ~> (wpc[c] # "queued")
  /\ \A b \in Brokers : (bpc[b] = "serving" /\ ~running[b]) ~> (bpc[b] = "exited")

\* An exception in an accept iteration has occurred, the broker still serves
\* with running set, and a connection was accepted and its command served
C21_Witness ==
  /\ faults = 1
  /\ \E c \in Conns : wpc[c] = "closed" /\ sent[c] = 1 /\ cpc[c] = "done"
  /\ \A c \in Conns : wpc[c] \in {"none", "closed"}
  /\ bpc["B1"] = "serving" /\ running["B1"]


(***************************************************************************)
(* Whose reply a line read by a worker is.                                 *)
(***************************************************************************)
\* The marker lines among the lines the device has queued.  Each reply of the
\* device ends with its one marker line, so every marker line but the last
\* queued one ends the reply to an earlier command.
MarkerLines(q) == {i \in DOMAIN q : IsTerminal(Strip(q[i]))}

\* The head of the queue was sent in reply to an earlier command than the one
\* whose worker reads now (its own reply, queued last, is unread to its marker)
HeadIsStale(q) == Cardinality(MarkerLines(q)) >= 2

\* C22: a line a worker takes into its response was sent by the device in
\* reply to that worker's command, never in reply to an earlier command whose
\* collection ended before the line was read.
C22_NoStaleLines ==
  [][\A c \in Conns :
       (wpc[c] = "read" /\ rxq # <<>> /\ rxq' = Tail(rxq)
          /\ (lines'[c] # lines[c] \/ wpc'[c] = "send")
          /\ Strip(Head(rxq)) # <<>>)
         => ~HeadIsStale(rxq)]_vars


\* C23: while a worker holds the broker's mutex, between its write and the end
\* of its response collection, the broker's serial link is open, whenever the
\* termination request arrives.
C23_NoCloseInTransaction ==
  \A c \in Conns :
    (arduino_lock[cbroker[c]] = c /\ InTxn(c)) => cbroker[c] \in serialOpen


\* The positions inside get_connection past its test of the cached connection
GcSubs == {"flock", "open", "id", "idread"}

\* C24: a step in which get_connection returns None to its caller, whatever
\* the cause (the lock refused, the serial port failing to open or to take the
\* handshake, a wrong handshake answer), leaves the process without the lock
\* and without an open serial connection.
C24_UnavailableHoldsNothing ==
  [][\A p \in GateProcs :
       (/\ gate[p].sub \in GcSubs
        /\ [gate'[p] EXCEPT !.refused = gate[p].refused] = AfterGc(gate[p], FALSE))
         => (p \notin serialOpen' /\ p \notin lockHolders')]_vars


\* C25: a client process whose cached serial connection is open holds the
\* advisory lock; a step that opens the connection is taken with the lock
\* held, and a step that gives the lock up leaves no open connection.
C25_OpenImpliesLock ==
  /\ [](\A p \in GateProcs : p \in serialOpen => p \in lockHolders)
  /\ [][\A p \in GateProcs :
          /\ (p \notin serialOpen /\ p \in serialOpen') => p \in lockHolders
          /\ (p \in lockHolders /\ p \notin lockHolders') => p \notin serialOpen']_vars

\* A process reads the answer to a STATUS over its cached connection, the lock
\* its own, after its peer was refused the lock and gave up
C25_Witness ==
  \E p, q \in GateProcs :
    /\ p # q
    /\ p \in serialOpen /\ lockHolders = {p}
    /\ gate[p].pc = "rsend" /\ gate[p].sub = "read"
    /\ gate[q].pc = "done" /\ gate[q].exit = "1" /\ gate[q].refused


\* C26: a send_command call of a client process that returns a response has
\* handed its command line to the device exactly once, whatever I/O errors
\* and retries came before.
C26_WrittenOnce ==
  [][\A p \in GateProcs :
       (gate[p].sub = "read" /\ gate'[p].sub # "read" /\ faults' = faults)
         => gate[p].writes = 1]_vars

====
